---- MODULE Spec2Model ----
(***************************************************************************)
(* The example plugin examples/plugins/echo-plugin/plugin.py, run as a     *)
(* child process of the host described in spec.md: the host writes one     *)
(* request to the plugin's input channel and closes it, the plugin         *)
(* executes main() statement by statement, the host drains the output,     *)
(* decodes it and feeds the edits to the Edit Merger.                      *)
(*                                                                         *)
(* Text is a sequence of one-character strings.  Python offsets are        *)
(* 0-based: source[i] is src[i+1] and source[a:b] is SubSeq(src, a+1, b).  *)
(***************************************************************************)
EXTENDS Integers, Sequences, FiniteSets, TLC

VARIABLES
    run,          \* host: 1 = first invocation, 2 = invocation on the rewritten text
    req,          \* host: the request being sent
    sent,         \* host: number of chunks of the request written so far
    stdin,        \* input channel: chunks written and not yet read
    stdinClosed,  \* input channel: closed by the host (end-of-input)
    buf,          \* plugin: chunks read so far by json.load's fp.read()
    pc,           \* plugin: statement about to be executed
    input_data,   \* plugin: local of main()
    source,       \* plugin: local of main()
    file_path,    \* plugin: local of main()
    edits,        \* plugin: local of main()
    pos,          \* plugin: local of main()
    comment,      \* plugin: local of main()
    output,       \* plugin: local of main()
    stdout,       \* output channel: chunks written by json.dump
    response,     \* host: the decoded response (Plugin Transport's result)
    merged        \* host: the Edit Merger's result

vars ==
    <<run, req, sent, stdin, stdinClosed, buf, pc, input_data, source, file_path,
      edits, pos, comment, output, stdout, response, merged>>

plugin_vars ==
    <<buf, pc, input_data, source, file_path, edits, pos, comment, output, stdout>>

host_vars ==
    <<run, req, sent, stdinClosed, response, merged>>

----------------------------------------------------------------------------
(* Bounds of the model. *)

\* longest text placed after the opening tag of a generated source
MaxTail == 2

\* longest generated file path
MaxFile == 2

\* number of writes the host needs to send one request
ReqChunks == 2

----------------------------------------------------------------------------
(* Characters and the text constants of the program. *)

SP == " "

TAB == "\t"

LF == "\n"

\* '<?php'
PhpTag == <<"<", "?", "p", "h", "p">>

\* '<?php\n/**'
DocTag == <<"<", "?", "p", "h", "p", LF, "/", "*", "*">>

\* ' \t'
ScanChars == {SP, TAB}

\* "\n/**\n * @file "
DocOpen == <<LF, "/", "*", "*", LF, SP, "*", SP, "@", "f", "i", "l", "e", SP>>

\* "\n */"
DocClose == <<LF, SP, "*", "/">>

DocMessage == "Add file docblock comment"

\* len('<?php')
PhpTagLen == 5

----------------------------------------------------------------------------
(* JSON values as the plugin sees them after json.load.  A value is a      *)
(* record [t, v]: t is its type, v its text when it is a string.           *)

JStr(s) == [t |-> "str", v |-> s]

JNull == [t |-> "null", v |-> <<>>]

JNum == [t |-> "num", v |-> <<>>]

JArr == [t |-> "arr", v |-> <<>>]

\* a key that the object does not hold
Absent == [t |-> "absent", v |-> <<>>]

\* a local that has not been assigned yet
Unset == [t |-> "unset", v |-> <<>>]

\* a decoded document: t is "obj" for an object, whose two keys follow
JDoc(t, s, f) == [t |-> t, source |-> s, file |-> f]

NoDoc == JDoc("unset", Absent, Absent)

\* dict.get(key, default)
Get(obj, key, default) ==
    IF obj[key].t = "absent" THEN default ELSE obj[key]

\* attribute lookup of a str method (startswith, split): only str has them
HasStrMethods(x) == x.t = "str"

\* attribute lookup of .get: only dict has it
HasGet(d) == d.t = "obj"

----------------------------------------------------------------------------
(* Inputs. *)

TailChars == {SP, TAB, LF, "/", "*"}

FileChars == {"/", "a"}

Texts(chars, n) == UNION {[1..k -> chars] : k \in 0..n}

Heads == {<<>>, <<"<", "?", "p", "h">>, PhpTag, DocTag}

Sources == {h \o t : h \in Heads, t \in Texts(TailChars, MaxTail)}

Files == Texts(FileChars, MaxFile)

NonStrings == {JNull, JNum, JArr}

SourceValues == {JStr(s) : s \in Sources} \cup NonStrings \cup {Absent}

FileValues == {JStr(f) : f \in Files} \cup NonStrings \cup {Absent}

\* json: whether the text is syntactically valid JSON; val: what it decodes to
Requests ==
    {[json |-> TRUE, val |-> JDoc("obj", s, f)] : s \in SourceValues, f \in FileValues}
    \cup {[json |-> TRUE, val |-> JDoc(t, Absent, Absent)] : t \in {"arr", "num", "str", "null"}}
    \cup {[json |-> FALSE, val |-> NoDoc]}

----------------------------------------------------------------------------
(* The pure pieces of main(). *)

\* str.startswith(prefix)
StartsWith(s, prefix) ==
    Len(s) >= Len(prefix) /\ SubSeq(s, 1, Len(prefix)) = prefix

NeedsDocblock_Always(src) ==
    StartsWith(src, PhpTag)

\* the condition of the if statement
NeedsDocblock(src) ==
    StartsWith(src, PhpTag) /\ ~StartsWith(src, DocTag)

\* the condition of the while loop; source[pos] is src[p + 1]
ScanCond(src, p) ==
    p < Len(src) /\ src[p + 1] \in ScanChars

NextPos_Stuck(p) ==
    p

\* pos += 1
NextPos(p) ==
    p + 1

\* str.split('/'): the pieces between the separators, empty pieces kept
RECURSIVE Split(_)
Split(s) ==
    IF \A i \in 1..Len(s) : s[i] # "/"
    THEN <<s>>
    ELSE LET i == CHOOSE k \in 1..Len(s) :
                      s[k] = "/" /\ \A j \in 1..(k - 1) : s[j] # "/"
         IN  <<SubSeq(s, 1, i - 1)>> \o Split(SubSeq(s, i + 1, Len(s)))

Basename_First(f) ==
    Split(f)[1]

\* file_path.split('/')[-1]
Basename(f) ==
    LET parts == Split(f) IN parts[Len(parts)]

\* the right-hand side of the assignment to comment
Comment(f) ==
    DocOpen \o Basename(f) \o DocClose

NewEdit_NoMessage(p, c) ==
    [start |-> p, end |-> p, replacement |-> c]

NewEdit_OneBased(p, c) ==
    [start |-> p + 1, end |-> p + 1, replacement |-> c, message |-> DocMessage]

NewEdit_Replacing(p, c) ==
    [start |-> p, end |-> p + 1, replacement |-> c, message |-> DocMessage]

\* the dict appended to edits
NewEdit(p, c) ==
    [start |-> p, end |-> p, replacement |-> c, message |-> DocMessage]

\* the characters a text of the model can hold
Chars ==
    TailChars \cup FileChars \cup {"<", "?", "p", "h", "@", "f", "i", "l", "e"}

IsText(x) ==
    \A i \in 1..Len(x) : x[i] \in Chars

Serializable_Never(e) ==
    FALSE

\* json.dump encodes int and str values and raises TypeError on any other
Serializable(e) ==
    \A k \in DOMAIN e :
        IF k \in {"start", "end"} THEN e[k] \in Int
        ELSE IF k = "message" THEN e[k] \in STRING
        ELSE IsText(e[k])

AtEOF_NoClose ==
    stdin = <<>>

\* fp.read() returns once the channel is closed and everything sent was read
AtEOF ==
    stdinClosed /\ stdin = <<>>

\* json.loads of the text read: the request's value when the whole text was
\* read and is valid JSON, a JSONDecodeError otherwise
Decodable(chunks) ==
    Len(chunks) = ReqChunks /\ req.json

\* the chunks json.dump writes: the opening '{"edits": [', one per edit, and
\* the closing ']}'
OpenChunk == [k |-> "open", e |-> <<>>]

EditChunk(e) == [k |-> "edit", e |-> <<e>>]

CloseChunk == [k |-> "close", e |-> <<>>]

\* the edits written to the output channel so far
RECURSIVE Emitted(_)
Emitted(out) ==
    IF out = <<>> THEN <<>> ELSE Head(out).e \o Emitted(Tail(out))

----------------------------------------------------------------------------
(* The plugin process: one action per statement of main(). *)

\* an uncaught exception: the traceback goes to the error channel and the
\* process exits with a non-zero status
Raise ==
    /\ pc' = "failed"
    /\ UNCHANGED <<input_data, source, file_path, edits, pos, comment, output, stdout>>

\* json.load, reading: fp.read() takes what the channel holds
LoadRead ==
    /\ pc = "load"
    /\ stdin # <<>>
    /\ buf' = Append(buf, Head(stdin))
    /\ stdin' = Tail(stdin)
    /\ UNCHANGED <<pc, input_data, source, file_path, edits, pos, comment, output, stdout>>
    /\ UNCHANGED host_vars

\* json.load, decoding: at end-of-input the text read is decoded
LoadDecode ==
    /\ pc = "load"
    /\ AtEOF
    /\ IF Decodable(buf)
       THEN /\ input_data' = req.val
            /\ pc' = "get_source"
            /\ UNCHANGED <<source, file_path, edits, pos, comment, output, stdout>>
       ELSE Raise
    /\ UNCHANGED <<buf, stdin>>
    /\ UNCHANGED host_vars

\* source = input_data.get('source', '')
GetSource ==
    /\ pc = "get_source"
    /\ IF HasGet(input_data)
       THEN /\ source' = Get(input_data, "source", JStr(<<>>))
            /\ pc' = "get_file"
            /\ UNCHANGED <<input_data, file_path, edits, pos, comment, output, stdout>>
       ELSE Raise
    /\ UNCHANGED <<buf, stdin>>
    /\ UNCHANGED host_vars

\* file_path = input_data.get('file', '')
GetFile ==
    /\ pc = "get_file"
    /\ file_path' = Get(input_data, "file", JStr(<<>>))
    /\ pc' = "init_edits"
    /\ UNCHANGED <<input_data, source, edits, pos, comment, output, stdout>>
    /\ UNCHANGED <<buf, stdin>>
    /\ UNCHANGED host_vars

\* edits = []
InitEdits ==
    /\ pc = "init_edits"
    /\ edits' = <<>>
    /\ pc' = "if"
    /\ UNCHANGED <<input_data, source, file_path, pos, comment, output, stdout>>
    /\ UNCHANGED <<buf, stdin>>
    /\ UNCHANGED host_vars

\* if source.startswith('<?php') and not source.startswith('<?php\n/**'):
IfDocblock ==
    /\ pc = "if"
    /\ IF HasStrMethods(source)
       THEN /\ pc' = IF NeedsDocblock(source.v) THEN "set_pos" ELSE "output"
            /\ UNCHANGED <<input_data, source, file_path, edits, pos, comment, output, stdout>>
       ELSE Raise
    /\ UNCHANGED <<buf, stdin>>
    /\ UNCHANGED host_vars

\* pos = 5
SetPos ==
    /\ pc = "set_pos"
    /\ pos' = PhpTagLen
    /\ pc' = "while"
    /\ UNCHANGED <<input_data, source, file_path, edits, comment, output, stdout>>
    /\ UNCHANGED <<buf, stdin>>
    /\ UNCHANGED host_vars

\* while pos < len(source) and source[pos] in ' \t': pos += 1
ScanStep ==
    /\ pc = "while"
    /\ ScanCond(source.v, pos)
    /\ pos' = NextPos(pos)
    /\ UNCHANGED <<pc, input_data, source, file_path, edits, comment, output, stdout>>
    /\ UNCHANGED <<buf, stdin>>
    /\ UNCHANGED host_vars

\* the while condition is false: the loop is left
ScanExit ==
    /\ pc = "while"
    /\ ~ScanCond(source.v, pos)
    /\ pc' = "comment"
    /\ UNCHANGED <<input_data, source, file_path, edits, pos, comment, output, stdout>>
    /\ UNCHANGED <<buf, stdin>>
    /\ UNCHANGED host_vars

\* comment = "\n/**\n * @file " + file_path.split('/')[-1] + "\n */"
BuildComment ==
    /\ pc = "comment"
    /\ IF HasStrMethods(file_path)
       THEN /\ comment' = Comment(file_path.v)
            /\ pc' = "append"
            /\ UNCHANGED <<input_data, source, file_path, edits, pos, output, stdout>>
       ELSE Raise
    /\ UNCHANGED <<buf, stdin>>
    /\ UNCHANGED host_vars

\* edits.append({...})
AppendEdit ==
    /\ pc = "append"
    /\ edits' = Append(edits, NewEdit(pos, comment))
    /\ pc' = "output"
    /\ UNCHANGED <<input_data, source, file_path, pos, comment, output, stdout>>
    /\ UNCHANGED <<buf, stdin>>
    /\ UNCHANGED host_vars

\* output = {'edits': edits}
BuildOutput ==
    /\ pc = "output"
    /\ output' = [edits |-> edits]
    /\ pc' = "dump"
    /\ UNCHANGED <<input_data, source, file_path, edits, pos, comment, stdout>>
    /\ UNCHANGED <<buf, stdin>>
    /\ UNCHANGED host_vars

\* json.dump, first write: the opening of the object and of its list
DumpOpen ==
    /\ pc = "dump"
    /\ stdout = <<>>
    /\ stdout' = <<OpenChunk>>
    /\ UNCHANGED <<pc, input_data, source, file_path, edits, pos, comment, output>>
    /\ UNCHANGED <<buf, stdin>>
    /\ UNCHANGED host_vars

\* json.dump, next entry of the list: it is encoded and written, or the
\* encoder raises with the earlier chunks already written
DumpEdit ==
    /\ pc = "dump"
    /\ stdout # <<>>
    /\ Len(Emitted(stdout)) < Len(output.edits)
    /\ LET e == output.edits[Len(Emitted(stdout)) + 1]
       IN  IF Serializable(e)
           THEN /\ stdout' = Append(stdout, EditChunk(e))
                /\ UNCHANGED <<pc, input_data, source, file_path, edits, pos, comment, output>>
           ELSE Raise
    /\ UNCHANGED <<buf, stdin>>
    /\ UNCHANGED host_vars

\* json.dump, last write: the list and the object are closed; main() returns
DumpClose ==
    /\ pc = "dump"
    /\ stdout # <<>>
    /\ Len(Emitted(stdout)) = Len(output.edits)
    /\ stdout' = Append(stdout, CloseChunk)
    /\ pc' = "done"
    /\ UNCHANGED <<input_data, source, file_path, edits, pos, comment, output>>
    /\ UNCHANGED <<buf, stdin>>
    /\ UNCHANGED host_vars

PluginNext ==
    \/ LoadRead
    \/ LoadDecode
    \/ GetSource
    \/ GetFile
    \/ InitEdits
    \/ IfDocblock
    \/ SetPos
    \/ ScanStep
    \/ ScanExit
    \/ BuildComment
    \/ AppendEdit
    \/ BuildOutput
    \/ DumpOpen
    \/ DumpEdit
    \/ DumpClose

----------------------------------------------------------------------------
(* The host side of the protocol, after spec.md: Edit validation (4.1),    *)
(* Plugin Transport (4.2) and Edit Merger (4.4).                           *)

\* the text the host holds for this invocation
HostSource ==
    IF req.val.source.t = "str" THEN req.val.source.v ELSE <<>>

RequiredFields == {"start", "end", "replacement", "message"}

\* 4.1: 0 <= start <= end <= length(source)
ValidEdit(e, src) ==
    0 <= e.start /\ e.start <= e.end /\ e.end <= Len(src)

\* 6: a single object whose edits entries hold every required field
WellFormed(out) ==
    /\ Len(out) >= 2
    /\ out[1].k = "open"
    /\ out[Len(out)].k = "close"
    /\ \A i \in 2..(Len(out) - 1) : out[i].k = "edit"
    /\ \A i \in 1..Len(Emitted(out)) : RequiredFields \subseteq DOMAIN Emitted(out)[i]

\* 4.2: the result of one invocation, once the process has exited
TransportResult ==
    IF pc = "failed"
    THEN [status |-> "PluginExitError",
          edits |-> IF WellFormed(stdout) THEN Emitted(stdout) ELSE <<>>]
    ELSE IF WellFormed(stdout)
    THEN [status |-> "ok", edits |-> Emitted(stdout)]
    ELSE [status |-> "MalformedResponseError", edits |-> <<>>]

\* 4.4 step 2: stable sort by start
RECURSIVE InsertByStart(_, _)
InsertByStart(e, sorted) ==
    IF sorted = <<>> THEN <<e>>
    ELSE IF Head(sorted).start <= e.start
    THEN <<Head(sorted)>> \o InsertByStart(e, Tail(sorted))
    ELSE <<e>> \o sorted

RECURSIVE SortByStart(_)
SortByStart(es) ==
    IF es = <<>> THEN <<>>
    ELSE InsertByStart(es[Len(es)], SortByStart(SubSeq(es, 1, Len(es) - 1)))

\* 4.4 steps 3 and 4: the greedy walk with its cursor
RECURSIVE Walk(_, _, _, _)
Walk(es, src, cursor, acc) ==
    IF es = <<>>
    THEN [acc EXCEPT !.text = @ \o SubSeq(src, cursor + 1, Len(src))]
    ELSE LET e == Head(es)
         IN  IF e.start < cursor
             THEN Walk(Tail(es), src, cursor,
                       [acc EXCEPT !.rejected =
                            Append(@, [edit |-> e, reason |-> "OverlapError"])])
             ELSE Walk(Tail(es), src, e.end,
                       [acc EXCEPT !.text = @ \o SubSeq(src, cursor + 1, e.start)
                                              \o e.replacement,
                                   !.applied = Append(@, e)])

NotMerged ==
    [done |-> FALSE, text |-> <<>>, applied |-> <<>>, rejected |-> <<>>]

\* 4.4: validate, sort, walk
Merge(src, es) ==
    LET IsValid(e) == ValidEdit(e, src)
        IsInvalid(e) == ~ValidEdit(e, src)
        Invalid(i) == [edit |-> SelectSeq(es, IsInvalid)[i], reason |-> "InvalidEditError"]
        start == [done |-> TRUE, text |-> <<>>, applied |-> <<>>,
                  rejected |-> [i \in 1..Len(SelectSeq(es, IsInvalid)) |-> Invalid(i)]]
    IN  Walk(SortByStart(SelectSeq(es, IsValid)), src, 0, start)

NoResponse == [status |-> "none", edits |-> <<>>]

\* 4.2: serialize the request to the input channel
HostWrite ==
    /\ sent < ReqChunks
    /\ ~stdinClosed
    /\ stdin' = Append(stdin, sent + 1)
    /\ sent' = sent + 1
    /\ UNCHANGED <<run, req, stdinClosed, response, merged>>
    /\ UNCHANGED plugin_vars

\* 4.2: close the channel to signal end-of-input
HostClose ==
    /\ sent = ReqChunks
    /\ ~stdinClosed
    /\ stdinClosed' = TRUE
    /\ UNCHANGED <<run, req, sent, stdin, response, merged>>
    /\ UNCHANGED plugin_vars

\* 4.2: the output is read until the process exits, then decoded
HostCollect ==
    /\ stdinClosed
    /\ pc \in {"done", "failed"}
    /\ response.status = "none"
    /\ response' = TransportResult
    /\ UNCHANGED <<run, req, sent, stdin, stdinClosed, merged>>
    /\ UNCHANGED plugin_vars

\* 4.4: the response of the only plugin is merged into the source
HostMerge ==
    /\ response.status = "ok"
    /\ ~merged.done
    /\ merged' = Merge(HostSource, response.edits)
    /\ UNCHANGED <<run, req, sent, stdin, stdinClosed, response>>
    /\ UNCHANGED plugin_vars

\* the host is run again on the text it wrote back, with the same file
HostRerun ==
    /\ run = 1
    /\ merged.done
    /\ merged.applied # <<>>
    /\ run' = 2
    /\ req' = [req EXCEPT !.val.source = JStr(merged.text)]
    /\ sent' = 0
    /\ stdin' = <<>>
    /\ stdinClosed' = FALSE
    /\ buf' = <<>>
    /\ pc' = "load"
    /\ input_data' = NoDoc
    /\ source' = Unset
    /\ file_path' = Unset
    /\ edits' = <<>>
    /\ pos' = 0
    /\ comment' = <<>>
    /\ output' = [edits |-> <<>>]
    /\ stdout' = <<>>
    /\ response' = NoResponse
    /\ merged' = NotMerged

HostNext ==
    \/ HostWrite
    \/ HostClose
    \/ HostCollect
    \/ HostMerge
    \/ HostRerun

----------------------------------------------------------------------------

Init ==
    /\ run = 1
    /\ req \in Requests
    /\ sent = 0
    /\ stdin = <<>>
    /\ stdinClosed = FALSE
    /\ buf = <<>>
    /\ pc = "load"
    /\ input_data = NoDoc
    /\ source = Unset
    /\ file_path = Unset
    /\ edits = <<>>
    /\ pos = 0
    /\ comment = <<>>
    /\ output = [edits |-> <<>>]
    /\ stdout = <<>>
    /\ response = NoResponse
    /\ merged = NotMerged

Next ==
    \/ PluginNext
    \/ HostNext

Spec ==
    Init /\ [][Next]_vars

\* the operating system keeps scheduling a runnable plugin process
FairSpec ==
    Spec /\ WF_vars(PluginNext)

----------------------------------------------------------------------------
(* Properties. *)

\* the request is a JSON object whose 'source' and 'file' are strings or absent
ValidRequest ==
    /\ req.json
    /\ req.val.t = "obj"
    /\ req.val.source.t \in {"str", "absent"}
    /\ req.val.file.t \in {"str", "absent"}

\* the source and file texts of the request, '' standing for an absent key
ReqSource ==
    IF req.val.source.t = "str" THEN req.val.source.v ELSE <<>>

ReqFile ==
    IF req.val.file.t = "str" THEN req.val.file.v ELSE <<>>

\* the edits written to the output channel
Out == Emitted(stdout)

BeginsWith(s, p) ==
    Len(s) >= Len(p) /\ \A i \in 1..Len(p) : s[i] = p[i]

\* the output channel holds exactly one complete response object
OneObject(out) ==
    /\ Len(out) >= 2
    /\ out[1] = OpenChunk
    /\ out[Len(out)] = CloseChunk
    /\ \A i \in 2..(Len(out) - 1) : out[i].k = "edit"

Opens(out) ==
    Cardinality({i \in 1..Len(out) : out[i].k = "open"})

FourFields(e) ==
    /\ DOMAIN e = {"start", "end", "replacement", "message"}
    /\ e.start \in Int
    /\ e.end \in Int
    /\ IsText(e.replacement)
    /\ e.message \in STRING

\* C1: for a request that is an object with string (or absent) 'source' and
\* 'file', the plugin never fails, never writes more than one object, every
\* entry it writes has the four fields start, end (integers), replacement and
\* message (strings), and the finished output is one object with an edits list
\* that the host decodes without a MalformedResponseError.
C1_ResponseShape ==
    ValidRequest =>
        /\ pc # "failed"
        /\ Opens(stdout) <= 1
        /\ \A i \in 1..Len(Out) : FourFields(Out[i])
        /\ pc = "done" => OneObject(stdout)
        /\ response.status \in {"none", "ok"}

C1_Witness ==
    /\ ValidRequest
    /\ pc = "done"
    /\ Len(Out) = 1
    /\ response.status = "ok"

\* C2: every edit written satisfies 0 <= start <= end <= length(source), in
\* characters of the source of the request, and the Merger rejects none of
\* them as an invalid edit.
C2_OffsetsInRange ==
    /\ \A i \in 1..Len(Out) :
          /\ 0 <= Out[i].start
          /\ Out[i].start <= Out[i].end
          /\ Out[i].end <= Len(ReqSource)
    /\ \A i \in 1..Len(merged.rejected) :
          merged.rejected[i].reason # "InvalidEditError"

\* an edit at the very end of a source that is '<?php' followed by two
\* spaces or tabs
C2_Witness ==
    /\ Len(Out) = 1
    /\ Len(ReqSource) = 7
    /\ Out[1].start = 7
    /\ merged.done

\* C3: nothing is written to the output channel before the input channel is
\* closed and drained; at most one response object is written; nothing is
\* read once something has been written.
C3_ReadAllThenWrite ==
    /\ [](stdout # <<>> =>
            /\ stdinClosed
            /\ stdin = <<>>
            /\ Len(buf) = ReqChunks)
    /\ [](Opens(stdout) <= 1)
    /\ [][(stdout' # stdout /\ run' = run) => stdinClosed]_vars
    /\ [][(stdout # <<>> /\ run' = run) => (buf' = buf /\ stdin' = stdin)]_vars

C3_Witness ==
    /\ pc = "dump"
    /\ Len(stdout) = 2
    /\ stdinClosed

\* C4: when the response is the only input of the Merger, every edit is
\* applied and none rejected; with an edit the final text is
\* source[0:start] + replacement + source[start:] and its length is
\* length(source) + length(replacement); with no edit it is the source.
C4_MergeInsertsDocblock ==
    merged.done =>
        /\ merged.rejected = <<>>
        /\ merged.applied = Out
        /\ Out = <<>> => merged.text = ReqSource
        /\ \A i \in 1..Len(Out) :
              /\ merged.text = SubSeq(ReqSource, 1, Out[i].start)
                               \o Out[i].replacement
                               \o SubSeq(ReqSource, Out[i].start + 1, Len(ReqSource))
              /\ Len(merged.text) = Len(ReqSource) + Len(Out[i].replacement)

C4_Witness ==
    /\ merged.done
    /\ Len(merged.applied) = 1
    /\ merged.applied[1].start = 6
    /\ Len(ReqSource) = 7

C6_AfterAllWhitespace ==
    \A i \in 1..Len(Out) :
        /\ Out[i].start >= 5
        /\ \A j \in 6..Out[i].start : ReqSource[j] \in {" ", "\t", "\n"}
        /\ \/ Out[i].start = Len(ReqSource)
           \/ ReqSource[Out[i].start + 1] \notin {" ", "\t", "\n"}

\* the part of a path after its last '/'
AfterLastSlash(f) ==
    LET slashes == {i \in 1..Len(f) : f[i] = "/"}
    IN  IF slashes = {} THEN f
        ELSE SubSeq(f, 1 + (CHOOSE k \in slashes : \A j \in slashes : j <= k), Len(f))

\* C7: the replacement is "\n/**\n * @file " + base + "\n */" with base the
\* part of 'file' after its last '/', which holds no '/'; the message is
\* 'Add file docblock comment'; whether an edit is written and at which
\* offset is decided by the source alone.
C7_ReplacementNamesFile ==
    /\ \A i \in 1..Len(Out) :
          /\ Out[i].replacement =
                <<"\n", "/", "*", "*", "\n", " ", "*", " ", "@", "f", "i", "l", "e", " ">>
                \o AfterLastSlash(ReqFile)
                \o <<"\n", " ", "*", "/">>
          /\ \A j \in 1..Len(AfterLastSlash(ReqFile)) : AfterLastSlash(ReqFile)[j] # "/"
          /\ Out[i].message = "Add file docblock comment"
          /\ Out[i].start >= 5
          /\ \A j \in 6..Out[i].start : ReqSource[j] \in {" ", "\t"}
          /\ \/ Out[i].start = Len(ReqSource)
             \/ ReqSource[Out[i].start + 1] \notin {" ", "\t"}
    /\ pc = "done" =>
          (Out # <<>> <=>
              /\ BeginsWith(ReqSource, <<"<", "?", "p", "h", "p">>)
              /\ ~BeginsWith(ReqSource, <<"<", "?", "p", "h", "p", "\n", "/", "*", "*">>))

\* a path with a directory part and a non-empty base
C7_Witness ==
    /\ Len(Out) = 1
    /\ ReqFile = <<"/", "a">>
    /\ pc = "done"

\* C8: the plugin run on the text rewritten by its own edit, with the same
\* file, answers with an empty edits list.
C8_RerunFixedPoint ==
    (run = 2 /\ pc = "done") => Out = <<>>

\* C9: a failed plugin has written nothing, a finished one has written one
\* complete object, output exists only from the dump on, and a step taken
\* after output exists never fails and never takes output back.
C9_AllOrNothing ==
    /\ [](pc = "failed" => stdout = <<>>)
    /\ [](pc = "done" => OneObject(stdout))
    /\ [](stdout # <<>> => pc \in {"dump", "done"})
    /\ [][(stdout # <<>> /\ run' = run) =>
            /\ pc' # "failed"
            /\ Len(stdout') >= Len(stdout)
            /\ SubSeq(stdout', 1, Len(stdout)) = stdout]_vars
    /\ [][(pc = "done" /\ run' = run) => (pc' = "done" /\ stdout' = stdout)]_vars

\* a request with a string source that needs a docblock and a null file:
\* the failure comes after the scan
C9_Witness ==
    /\ pc = "failed"
    /\ req.val.file.t = "null"
    /\ pos = 7
    /\ stdout = <<>>
    /\ response.status = "PluginExitError"

\* C10: during the scan 5 <= pos <= length(source) and each iteration adds
\* one to pos; once the input is closed the plugin terminates, and on a
\* request with string (or absent) fields it terminates having written its
\* response.
C10_Terminates ==
    /\ [](pc = "while" => (5 <= pos /\ pos <= Len(source.v)))
    /\ [][(pc = "while" /\ pc' = "while" /\ run' = run) => pos' = pos + 1]_vars
    /\ (stdinClosed ~> pc \in {"done", "failed"})
    /\ ((stdinClosed /\ ValidRequest) ~> (pc = "done" /\ OneObject(stdout)))

\* a scan that ran to the end of the source
C10_Witness ==
    /\ pc = "done"
    /\ pos = 7
    /\ Len(ReqSource) = 7

====
